---- MODULE Spec2Model ----
(***************************************************************************)
(* A model of typeform_csv_parser.py: the question kinds (header           *)
(* validation, cell decoding, summaries), the SurveyResponses table and    *)
(* the parse loop.                                                         *)
(*                                                                         *)
(* Text is a sequence of characters, each a string, so that strip(),       *)
(* int(), float(), the lenient-number pattern and strptime() are computed  *)
(* character by character as Python computes them.  None and '' as a       *)
(* short_name argument are both the empty sequence (both are falsy).       *)
(***************************************************************************)
EXTENDS Integers, Sequences, FiniteSets, TLC

VARIABLES
    pc,          \* position of parse(): "start", "ingesting", "ctor_failed", "aborted", "done"
    questions,   \* SurveyResponses.questions
    headers,     \* the header row handed to SurveyResponses.__init__
    mapping,     \* SurveyResponses.mapping: one [start, stop] slice per question
    responses,   \* SurveyResponses.responses: short name -> list of decoded values
    lastRow,     \* the row of the latest ingest call
    calls,       \* number of ingest calls made so far
    failedAt,    \* index of the question whose clean raised in the latest ingest, 0 if none
    raisedExc,   \* the exception that ended parse, "none" if none
    stdout,      \* what FreeNumberQuestion.clean printed so far
    fq,          \* field under test (specifications of the single operations)
    fhead,       \* header span under test
    fcells,      \* row span under test
    fop,         \* operation applied last: "none", "validate", "clean", "construct"
    fout         \* its result

vars == <<pc, questions, headers, mapping, responses, lastRow, calls, failedAt,
          raisedExc, stdout, fq, fhead, fcells, fop, fout>>

tableVars == <<pc, questions, headers, mapping, responses, lastRow, calls,
               failedAt, raisedExc, stdout>>

fieldVars == <<fq, fhead, fcells, fop, fout>>

(***************************************************************************)
(* Bounds of the model.                                                    *)
(***************************************************************************)
MaxRows == 2        \* ingest calls per parse
MaxCellLen == 3     \* characters of a cell handed to the lenient-number decode
MaxSpan == 2        \* cells of a header or row span handed to a single field
MaxOptions == 2     \* entries of the choices argument of a choice question

(***************************************************************************)
(* Python str, list and dict primitives.                                   *)
(***************************************************************************)
\* A character that has no literal in this notation is written by its code
\* point, "U+00A0"; every other character is written as itself.
\*
\* the characters str.strip() removes and \s matches
Whitespace ==
    {"\t", "\n", "U+000B", "\f", "\r", "U+001C", "U+001D", "U+001E",
      "U+001F", " ", "U+0085", "U+00A0", "U+1680", "U+2000", "U+2001",
      "U+2002", "U+2003", "U+2004", "U+2005", "U+2006", "U+2007", "U+2008",
      "U+2009", "U+200A", "U+2028", "U+2029", "U+202F", "U+205F", "U+3000"}

\* the whitespace int() removes around a numeral: the four separators
\* U+001C-U+001F are not part of it
IntWhitespace == Whitespace \ {"U+001C", "U+001D", "U+001E", "U+001F"}

\* the characters of [0-9]
Digits == {"0", "1", "2", "3", "4", "5", "6", "7", "8", "9"}

\* the decimal digits int() reads and \d matches, one row per script, the
\* digits 0 to 9 of the script in order
DecimalRows ==
    << <<"0", "1", "2", "3", "4", "5", "6", "7", "8", "9">>,
       <<"U+0660", "U+0661", "U+0662", "U+0663", "U+0664", "U+0665", "U+0666", "U+0667", "U+0668", "U+0669">>,
       <<"U+06F0", "U+06F1", "U+06F2", "U+06F3", "U+06F4", "U+06F5", "U+06F6", "U+06F7", "U+06F8", "U+06F9">>,
       <<"U+07C0", "U+07C1", "U+07C2", "U+07C3", "U+07C4", "U+07C5", "U+07C6", "U+07C7", "U+07C8", "U+07C9">>,
       <<"U+0966", "U+0967", "U+0968", "U+0969", "U+096A", "U+096B", "U+096C", "U+096D", "U+096E", "U+096F">>,
       <<"U+09E6", "U+09E7", "U+09E8", "U+09E9", "U+09EA", "U+09EB", "U+09EC", "U+09ED", "U+09EE", "U+09EF">>,
       <<"U+0A66", "U+0A67", "U+0A68", "U+0A69", "U+0A6A", "U+0A6B", "U+0A6C", "U+0A6D", "U+0A6E", "U+0A6F">>,
       <<"U+0AE6", "U+0AE7", "U+0AE8", "U+0AE9", "U+0AEA", "U+0AEB", "U+0AEC", "U+0AED", "U+0AEE", "U+0AEF">>,
       <<"U+0B66", "U+0B67", "U+0B68", "U+0B69", "U+0B6A", "U+0B6B", "U+0B6C", "U+0B6D", "U+0B6E", "U+0B6F">>,
       <<"U+0BE6", "U+0BE7", "U+0BE8", "U+0BE9", "U+0BEA", "U+0BEB", "U+0BEC", "U+0BED", "U+0BEE", "U+0BEF">>,
       <<"U+0C66", "U+0C67", "U+0C68", "U+0C69", "U+0C6A", "U+0C6B", "U+0C6C", "U+0C6D", "U+0C6E", "U+0C6F">>,
       <<"U+0CE6", "U+0CE7", "U+0CE8", "U+0CE9", "U+0CEA", "U+0CEB", "U+0CEC", "U+0CED", "U+0CEE", "U+0CEF">>,
       <<"U+0D66", "U+0D67", "U+0D68", "U+0D69", "U+0D6A", "U+0D6B", "U+0D6C", "U+0D6D", "U+0D6E", "U+0D6F">>,
       <<"U+0DE6", "U+0DE7", "U+0DE8", "U+0DE9", "U+0DEA", "U+0DEB", "U+0DEC", "U+0DED", "U+0DEE", "U+0DEF">>,
       <<"U+0E50", "U+0E51", "U+0E52", "U+0E53", "U+0E54", "U+0E55", "U+0E56", "U+0E57", "U+0E58", "U+0E59">>,
       <<"U+0ED0", "U+0ED1", "U+0ED2", "U+0ED3", "U+0ED4", "U+0ED5", "U+0ED6", "U+0ED7", "U+0ED8", "U+0ED9">>,
       <<"U+0F20", "U+0F21", "U+0F22", "U+0F23", "U+0F24", "U+0F25", "U+0F26", "U+0F27", "U+0F28", "U+0F29">>,
       <<"U+1040", "U+1041", "U+1042", "U+1043", "U+1044", "U+1045", "U+1046", "U+1047", "U+1048", "U+1049">>,
       <<"U+1090", "U+1091", "U+1092", "U+1093", "U+1094", "U+1095", "U+1096", "U+1097", "U+1098", "U+1099">>,
       <<"U+17E0", "U+17E1", "U+17E2", "U+17E3", "U+17E4", "U+17E5", "U+17E6", "U+17E7", "U+17E8", "U+17E9">>,
       <<"U+1810", "U+1811", "U+1812", "U+1813", "U+1814", "U+1815", "U+1816", "U+1817", "U+1818", "U+1819">>,
       <<"U+1946", "U+1947", "U+1948", "U+1949", "U+194A", "U+194B", "U+194C", "U+194D", "U+194E", "U+194F">>,
       <<"U+19D0", "U+19D1", "U+19D2", "U+19D3", "U+19D4", "U+19D5", "U+19D6", "U+19D7", "U+19D8", "U+19D9">>,
       <<"U+1A80", "U+1A81", "U+1A82", "U+1A83", "U+1A84", "U+1A85", "U+1A86", "U+1A87", "U+1A88", "U+1A89">>,
       <<"U+1A90", "U+1A91", "U+1A92", "U+1A93", "U+1A94", "U+1A95", "U+1A96", "U+1A97", "U+1A98", "U+1A99">>,
       <<"U+1B50", "U+1B51", "U+1B52", "U+1B53", "U+1B54", "U+1B55", "U+1B56", "U+1B57", "U+1B58", "U+1B59">>,
       <<"U+1BB0", "U+1BB1", "U+1BB2", "U+1BB3", "U+1BB4", "U+1BB5", "U+1BB6", "U+1BB7", "U+1BB8", "U+1BB9">>,
       <<"U+1C40", "U+1C41", "U+1C42", "U+1C43", "U+1C44", "U+1C45", "U+1C46", "U+1C47", "U+1C48", "U+1C49">>,
       <<"U+1C50", "U+1C51", "U+1C52", "U+1C53", "U+1C54", "U+1C55", "U+1C56", "U+1C57", "U+1C58", "U+1C59">>,
       <<"U+A620", "U+A621", "U+A622", "U+A623", "U+A624", "U+A625", "U+A626", "U+A627", "U+A628", "U+A629">>,
       <<"U+A8D0", "U+A8D1", "U+A8D2", "U+A8D3", "U+A8D4", "U+A8D5", "U+A8D6", "U+A8D7", "U+A8D8", "U+A8D9">>,
       <<"U+A900", "U+A901", "U+A902", "U+A903", "U+A904", "U+A905", "U+A906", "U+A907", "U+A908", "U+A909">>,
       <<"U+A9D0", "U+A9D1", "U+A9D2", "U+A9D3", "U+A9D4", "U+A9D5", "U+A9D6", "U+A9D7", "U+A9D8", "U+A9D9">>,
       <<"U+A9F0", "U+A9F1", "U+A9F2", "U+A9F3", "U+A9F4", "U+A9F5", "U+A9F6", "U+A9F7", "U+A9F8", "U+A9F9">>,
       <<"U+AA50", "U+AA51", "U+AA52", "U+AA53", "U+AA54", "U+AA55", "U+AA56", "U+AA57", "U+AA58", "U+AA59">>,
       <<"U+ABF0", "U+ABF1", "U+ABF2", "U+ABF3", "U+ABF4", "U+ABF5", "U+ABF6", "U+ABF7", "U+ABF8", "U+ABF9">>,
       <<"U+FF10", "U+FF11", "U+FF12", "U+FF13", "U+FF14", "U+FF15", "U+FF16", "U+FF17", "U+FF18", "U+FF19">>,
       <<"U+104A0", "U+104A1", "U+104A2", "U+104A3", "U+104A4", "U+104A5", "U+104A6", "U+104A7", "U+104A8", "U+104A9">>,
       <<"U+10D30", "U+10D31", "U+10D32", "U+10D33", "U+10D34", "U+10D35", "U+10D36", "U+10D37", "U+10D38", "U+10D39">>,
       <<"U+11066", "U+11067", "U+11068", "U+11069", "U+1106A", "U+1106B", "U+1106C", "U+1106D", "U+1106E", "U+1106F">>,
       <<"U+110F0", "U+110F1", "U+110F2", "U+110F3", "U+110F4", "U+110F5", "U+110F6", "U+110F7", "U+110F8", "U+110F9">>,
       <<"U+11136", "U+11137", "U+11138", "U+11139", "U+1113A", "U+1113B", "U+1113C", "U+1113D", "U+1113E", "U+1113F">>,
       <<"U+111D0", "U+111D1", "U+111D2", "U+111D3", "U+111D4", "U+111D5", "U+111D6", "U+111D7", "U+111D8", "U+111D9">>,
       <<"U+112F0", "U+112F1", "U+112F2", "U+112F3", "U+112F4", "U+112F5", "U+112F6", "U+112F7", "U+112F8", "U+112F9">>,
       <<"U+11450", "U+11451", "U+11452", "U+11453", "U+11454", "U+11455", "U+11456", "U+11457", "U+11458", "U+11459">>,
       <<"U+114D0", "U+114D1", "U+114D2", "U+114D3", "U+114D4", "U+114D5", "U+114D6", "U+114D7", "U+114D8", "U+114D9">>,
       <<"U+11650", "U+11651", "U+11652", "U+11653", "U+11654", "U+11655", "U+11656", "U+11657", "U+11658", "U+11659">>,
       <<"U+116C0", "U+116C1", "U+116C2", "U+116C3", "U+116C4", "U+116C5", "U+116C6", "U+116C7", "U+116C8", "U+116C9">>,
       <<"U+11730", "U+11731", "U+11732", "U+11733", "U+11734", "U+11735", "U+11736", "U+11737", "U+11738", "U+11739">>,
       <<"U+118E0", "U+118E1", "U+118E2", "U+118E3", "U+118E4", "U+118E5", "U+118E6", "U+118E7", "U+118E8", "U+118E9">>,
       <<"U+11950", "U+11951", "U+11952", "U+11953", "U+11954", "U+11955", "U+11956", "U+11957", "U+11958", "U+11959">>,
       <<"U+11C50", "U+11C51", "U+11C52", "U+11C53", "U+11C54", "U+11C55", "U+11C56", "U+11C57", "U+11C58", "U+11C59">>,
       <<"U+11D50", "U+11D51", "U+11D52", "U+11D53", "U+11D54", "U+11D55", "U+11D56", "U+11D57", "U+11D58", "U+11D59">>,
       <<"U+11DA0", "U+11DA1", "U+11DA2", "U+11DA3", "U+11DA4", "U+11DA5", "U+11DA6", "U+11DA7", "U+11DA8", "U+11DA9">>,
       <<"U+16A60", "U+16A61", "U+16A62", "U+16A63", "U+16A64", "U+16A65", "U+16A66", "U+16A67", "U+16A68", "U+16A69">>,
       <<"U+16AC0", "U+16AC1", "U+16AC2", "U+16AC3", "U+16AC4", "U+16AC5", "U+16AC6", "U+16AC7", "U+16AC8", "U+16AC9">>,
       <<"U+16B50", "U+16B51", "U+16B52", "U+16B53", "U+16B54", "U+16B55", "U+16B56", "U+16B57", "U+16B58", "U+16B59">>,
       <<"U+1D7CE", "U+1D7CF", "U+1D7D0", "U+1D7D1", "U+1D7D2", "U+1D7D3", "U+1D7D4", "U+1D7D5", "U+1D7D6", "U+1D7D7">>,
       <<"U+1D7D8", "U+1D7D9", "U+1D7DA", "U+1D7DB", "U+1D7DC", "U+1D7DD", "U+1D7DE", "U+1D7DF", "U+1D7E0", "U+1D7E1">>,
       <<"U+1D7E2", "U+1D7E3", "U+1D7E4", "U+1D7E5", "U+1D7E6", "U+1D7E7", "U+1D7E8", "U+1D7E9", "U+1D7EA", "U+1D7EB">>,
       <<"U+1D7EC", "U+1D7ED", "U+1D7EE", "U+1D7EF", "U+1D7F0", "U+1D7F1", "U+1D7F2", "U+1D7F3", "U+1D7F4", "U+1D7F5">>,
       <<"U+1D7F6", "U+1D7F7", "U+1D7F8", "U+1D7F9", "U+1D7FA", "U+1D7FB", "U+1D7FC", "U+1D7FD", "U+1D7FE", "U+1D7FF">>,
       <<"U+1E140", "U+1E141", "U+1E142", "U+1E143", "U+1E144", "U+1E145", "U+1E146", "U+1E147", "U+1E148", "U+1E149">>,
       <<"U+1E2F0", "U+1E2F1", "U+1E2F2", "U+1E2F3", "U+1E2F4", "U+1E2F5", "U+1E2F6", "U+1E2F7", "U+1E2F8", "U+1E2F9">>,
       <<"U+1E950", "U+1E951", "U+1E952", "U+1E953", "U+1E954", "U+1E955", "U+1E956", "U+1E957", "U+1E958", "U+1E959">>,
       <<"U+1FBF0", "U+1FBF1", "U+1FBF2", "U+1FBF3", "U+1FBF4", "U+1FBF5", "U+1FBF6", "U+1FBF7", "U+1FBF8", "U+1FBF9">> >>

DecimalDigits == {DecimalRows[b][d] : b \in DOMAIN DecimalRows, d \in 1..10}

DigitValue ==
    [c \in DecimalDigits |->
        (CHOOSE d \in 1..10 : \E b \in DOMAIN DecimalRows : DecimalRows[b][d] = c) - 1]

\* sys.int_info.default_max_str_digits
MaxStrDigits == 4300

MinOf(S) == CHOOSE x \in S : \A y \in S : x <= y

MaxOf(S) == CHOOSE x \in S : \A y \in S : y <= x

\* s without the leading and trailing characters that are in S
StripOf(s, S) ==
    LET keep == {i \in 1..Len(s) : s[i] \notin S}
    IN  IF keep = {} THEN <<>> ELSE SubSeq(s, MinOf(keep), MaxOf(keep))

strip(s) == StripOf(s, Whitespace)

\* seq[start:stop] for 0 <= start <= stop: clamped to the sequence, never an error
Slice(seq, start, stop) ==
    SubSeq(seq, start + 1, IF stop < Len(seq) THEN stop ELSE Len(seq))

RECURSIVE Join(_)
Join(cells) ==
    IF cells = <<>> THEN <<>> ELSE Head(cells) \o Join(Tail(cells))

DigitVal(c) == DigitValue[c]

DigitChar(n) ==
    CASE n = 0 -> "0" [] n = 1 -> "1" [] n = 2 -> "2" [] n = 3 -> "3"
      [] n = 4 -> "4" [] n = 5 -> "5" [] n = 6 -> "6" [] n = 7 -> "7"
      [] n = 8 -> "8" [] n = 9 -> "9"

RECURSIVE DigitsVal(_)
DigitsVal(s) ==
    IF s = <<>> THEN 0
    ELSE DigitsVal(SubSeq(s, 1, Len(s) - 1)) * 10 + DigitVal(s[Len(s)])

AllDigits(s) == \A i \in 1..Len(s) : s[i] \in DecimalDigits

RECURSIVE NatStr(_)
NatStr(n) ==
    IF n < 10 THEN <<DigitChar(n)>> ELSE NatStr(n \div 10) \o <<DigitChar(n % 10)>>

\* str(n) of an int
IntStr(n) == IF n < 0 THEN <<"-">> \o NatStr(0 - n) ELSE NatStr(n)

\* n rendered with at least w digits, as the %0wd of isoformat
RECURSIVE Pad(_, _)
Pad(s, w) == IF Len(s) >= w THEN s ELSE Pad(<<"0">> \o s, w)

\* An ordered dict is a sequence of [k, v] records with distinct keys, in
\* insertion order.
DictHas(d, k) == \E i \in 1..Len(d) : d[i].k = k

DictGet(d, k) == d[CHOOSE i \in 1..Len(d) : d[i].k = k].v

\* d[k] = v: a key already present keeps its position and takes the new value
DictPut(d, k, v) ==
    IF DictHas(d, k)
    THEN [i \in 1..Len(d) |-> IF d[i].k = k THEN [k |-> k, v |-> v] ELSE d[i]]
    ELSE Append(d, [k |-> k, v |-> v])

RECURSIVE DictFrom(_)
DictFrom(pairs) ==
    IF pairs = <<>> THEN <<>>
    ELSE LET last == pairs[Len(pairs)]
         IN  DictPut(DictFrom(SubSeq(pairs, 1, Len(pairs) - 1)), last.k, last.v)

DictKeys(d) == {d[i].k : i \in 1..Len(d)}

(***************************************************************************)
(* Decoded values and results of calls.                                    *)
(***************************************************************************)
VNone == [t |-> "None"]

VStr(s) == [t |-> "str", v |-> s]

VInt(n) == [t |-> "int", v |-> n]

VBool(b) == [t |-> "bool", v |-> b]

\* a float parsed from a decimal numeral: num / 10^scale, without trailing
\* zeros in the fraction
VFloat(num, scale) == [t |-> "float", num |-> num, scale |-> scale]

\* a datetime: <<year, month, day, hour, minute, second>>
VDate(d) == [t |-> "datetime", v |-> d]

VDict(d) == [t |-> "dict", v |-> d]

Returned(v) == [exc |-> "none", val |-> v, out |-> <<>>]

Raised(e) == [exc |-> e, val |-> VNone, out |-> <<>>]

(***************************************************************************)
(* int(), float() and datetime.strptime().                                 *)
(***************************************************************************)
\* int(text): surrounding whitespace, an optional sign, decimal digits with
\* single underscores between digits, at most MaxStrDigits digits; ValueError
\* otherwise
IntLiteralOk(b) ==
    /\ b # <<>>
    /\ \A i \in 1..Len(b) : b[i] \in DecimalDigits \cup {"_"}
    /\ b[1] # "_"
    /\ b[Len(b)] # "_"
    /\ \A i \in 1..(Len(b) - 1) : ~(b[i] = "_" /\ b[i + 1] = "_")

RECURSIVE DropUnderscores(_)
DropUnderscores(b) ==
    IF b = <<>> THEN <<>>
    ELSE IF Head(b) = "_" THEN DropUnderscores(Tail(b))
    ELSE <<Head(b)>> \o DropUnderscores(Tail(b))

PyInt(text) ==
    LET s == StripOf(text, IntWhitespace)
        signed == s # <<>> /\ s[1] \in {"+", "-"}
        body == IF signed THEN Tail(s) ELSE s
        ndigits == Cardinality({i \in 1..Len(body) : body[i] \in DecimalDigits})
        mag == DigitsVal(DropUnderscores(body))
    IN  IF ~IntLiteralOk(body) \/ ndigits > MaxStrDigits THEN Raised("ValueError")
        ELSE Returned(VInt(IF signed /\ s[1] = "-" THEN 0 - mag ELSE mag))

\* float(run) for a run of digits and dots, the only text the lenient-number
\* pattern hands to it: a numeral with at most one dot and at least one digit
RECURSIVE Normalise(_, _)
Normalise(num, scale) ==
    IF scale > 0 /\ num % 10 = 0 THEN Normalise(num \div 10, scale - 1)
    ELSE VFloat(num, scale)

PyFloat(run) ==
    LET dots == {i \in 1..Len(run) : run[i] = "."}
        digs == {i \in 1..Len(run) : run[i] \in Digits}
    IN  IF Cardinality(dots) > 1 \/ digs = {} THEN Raised("ValueError")
        ELSE LET dot == IF dots = {} THEN Len(run) + 1 ELSE MinOf(dots)
                 whole == SubSeq(run, 1, dot - 1)
                 frac == SubSeq(run, dot + 1, Len(run))
             IN  Returned(Normalise(DigitsVal(whole \o frac), Len(frac)))

\* number of consecutive characters of s from position p on that are in S
RunLen(s, p, S) ==
    LET stop == {i \in p..Len(s) : s[i] \notin S}
    IN  IF p > Len(s) THEN 0
        ELSE IF stop = {} THEN Len(s) - p + 1 ELSE MinOf(stop) - p

IsLeap(y) == (y % 4 = 0 /\ y % 100 # 0) \/ y % 400 = 0

DaysInMonth(y, m) ==
    IF m = 2 THEN (IF IsLeap(y) THEN 29 ELSE 28)
    ELSE IF m \in {4, 6, 9, 11} THEN 30 ELSE 31

\* datetime.datetime.strptime(s, '%Y-%m-%d %H:%M:%S').  The pattern of the
\* format is \d\d\d\d - (1[0-2]|0[1-9]|[1-9]) - (3[0-1]|[1-2]\d|0[1-9]|[1-9]| [1-9])
\* \s+ (2[0-3]|[0-1]\d|\d) : ([0-5]\d|\d) : (6[0-1]|[0-5]\d|\d), all of the
\* text must be consumed, each field is read with int(), and the datetime
\* constructor then rejects year 0, a day the month does not have and a
\* second above 59.  Every failure is a ValueError.  What follows a field is
\* no digit, so a field that can take two characters takes them; the
\* operators below scan the fields left to right, d being what was parsed so
\* far and p the position of the next field.
One(s, p, A) == p <= Len(s) /\ s[p] \in A

Two(s, p, A, B) == p + 1 <= Len(s) /\ s[p] \in A /\ s[p + 1] \in B

\* number of characters the field's alternatives take at p, 0 if none matches
MonthLen(s, p) ==
    IF Two(s, p, {"1"}, {"0", "1", "2"}) \/ Two(s, p, {"0"}, Digits \ {"0"}) THEN 2
    ELSE IF One(s, p, Digits \ {"0"}) THEN 1 ELSE 0

DayLen(s, p) ==
    IF \/ Two(s, p, {"3"}, {"0", "1"})
       \/ Two(s, p, {"1", "2"}, DecimalDigits)
       \/ Two(s, p, {"0"}, Digits \ {"0"})
       \/ Two(s, p, {" "}, Digits \ {"0"})
    THEN 2
    ELSE IF One(s, p, Digits \ {"0"}) THEN 1 ELSE 0

HourLen(s, p) ==
    IF Two(s, p, {"2"}, {"0", "1", "2", "3"}) \/ Two(s, p, {"0", "1"}, DecimalDigits) THEN 2
    ELSE IF One(s, p, DecimalDigits) THEN 1 ELSE 0

MinuteLen(s, p) ==
    IF Two(s, p, {"0", "1", "2", "3", "4", "5"}, DecimalDigits) THEN 2
    ELSE IF One(s, p, DecimalDigits) THEN 1 ELSE 0

SecondLen(s, p) ==
    IF \/ Two(s, p, {"6"}, {"0", "1"})
       \/ Two(s, p, {"0", "1", "2", "3", "4", "5"}, DecimalDigits)
    THEN 2
    ELSE IF One(s, p, DecimalDigits) THEN 1 ELSE 0

\* int() of the n characters at p
NumAt(s, p, n) == DigitsVal(StripOf(SubSeq(s, p, p + n - 1), IntWhitespace))

SepAt(s, p, c) == p <= Len(s) /\ s[p] = c

StrpDate(d) ==
    IF d[1] >= 1 /\ d[3] <= DaysInMonth(d[1], d[2]) /\ d[6] <= 59
    THEN Returned(VDate(d))
    ELSE Raised("ValueError")

StrpSecond(s, d, p) ==
    IF SecondLen(s, p) > 0 /\ p + SecondLen(s, p) = Len(s) + 1
    THEN StrpDate(Append(d, NumAt(s, p, SecondLen(s, p))))
    ELSE Raised("ValueError")

StrpMinute(s, d, p) ==
    IF MinuteLen(s, p) > 0 /\ SepAt(s, p + MinuteLen(s, p), ":")
    THEN StrpSecond(s, Append(d, NumAt(s, p, MinuteLen(s, p))), p + MinuteLen(s, p) + 1)
    ELSE Raised("ValueError")

StrpHour(s, d, p) ==
    IF HourLen(s, p) > 0 /\ SepAt(s, p + HourLen(s, p), ":")
    THEN StrpMinute(s, Append(d, NumAt(s, p, HourLen(s, p))), p + HourLen(s, p) + 1)
    ELSE Raised("ValueError")

StrpSpace(s, d, p) ==
    IF RunLen(s, p, Whitespace) >= 1
    THEN StrpHour(s, d, p + RunLen(s, p, Whitespace))
    ELSE Raised("ValueError")

StrpDay(s, d, p) ==
    IF DayLen(s, p) > 0
    THEN StrpSpace(s, Append(d, NumAt(s, p, DayLen(s, p))), p + DayLen(s, p))
    ELSE Raised("ValueError")

StrpMonth(s, d, p) ==
    IF MonthLen(s, p) > 0 /\ SepAt(s, p + MonthLen(s, p), "-")
    THEN StrpDay(s, Append(d, NumAt(s, p, MonthLen(s, p))), p + MonthLen(s, p) + 1)
    ELSE Raised("ValueError")

strptime(s) ==
    IF Len(s) >= 5 /\ AllDigits(SubSeq(s, 1, 4)) /\ s[5] = "-"
    THEN StrpMonth(s, <<DigitsVal(SubSeq(s, 1, 4))>>, 6)
    ELSE Raised("ValueError")

\* FreeNumberQuestion.reg.match(s): '^[^0-9.]*([0-9.]+)[^0-9.]*$' matches when
\* the digits and dots of s form exactly one run; group(1) is that run.
NumChars == Digits \cup {"."}

RegMatches(s) ==
    LET num == {i \in 1..Len(s) : s[i] \in NumChars}
    IN  num # {} /\ \A i \in MinOf(num)..MaxOf(num) : i \in num

RegGroup1(s) ==
    LET num == {i \in 1..Len(s) : s[i] \in NumChars}
    IN  SubSeq(s, MinOf(num), MaxOf(num))

(***************************************************************************)
(* The question kinds.  A question is a record: kind, question_text,       *)
(* short_name, length, and for the choice kinds the two dicts.             *)
(***************************************************************************)
_BaseQuestion(kind, question_text, short_name) ==
    [kind |-> kind,
     question_text |-> strip(question_text),
     short_name |-> IF short_name # <<>> THEN strip(short_name)
                    ELSE strip(question_text),
     length |-> 1,
     choices |-> <<>>,
     choices_by_long_name |-> <<>>]

TextQuestion(question_text, short_name) ==
    _BaseQuestion("TextQuestion", question_text, short_name)

MetaData(question_text, short_name) ==
    _BaseQuestion("MetaData", question_text, short_name)

DateTimeQuestion(question_text, short_name) ==
    _BaseQuestion("DateTimeQuestion", question_text, short_name)

IntegerQuestion(question_text, short_name) ==
    _BaseQuestion("IntegerQuestion", question_text, short_name)

FreeNumberQuestion(question_text, short_name) ==
    _BaseQuestion("FreeNumberQuestion", question_text, short_name)

BoolQuestion(question_text, short_name) ==
    _BaseQuestion("BoolQuestion", question_text, short_name)

\* choices argument: [isdict |-> TRUE, items |-> <<[k, v], ...>>] for a dict
\* (distinct keys); [isdict |-> FALSE, items |-> <<[k, v], ...>>] for a list,
\* each element c of the list being the item [k |-> c, v |-> c]
StrippedPairs(choices) ==
    [i \in 1..Len(choices.items) |->
        IF choices.isdict
        THEN [k |-> strip(choices.items[i].k), v |-> strip(choices.items[i].v)]
        ELSE [k |-> strip(choices.items[i].k), v |-> strip(choices.items[i].k)]]

ListOf(texts) ==
    [isdict |-> FALSE, items |-> [i \in 1..Len(texts) |-> [k |-> texts[i], v |-> texts[i]]]]

\* the dict copied instead of inverted
NotInverted(d) == d

Inverted(d) == [i \in 1..Len(d) |-> [k |-> d[i].v, v |-> d[i].k]]

ChoiceQuestionOf(kind, question_text, choices, short_name) ==
    LET d == DictFrom(StrippedPairs(choices))
    IN  [_BaseQuestion(kind, question_text, short_name) EXCEPT
            !.choices = d,
            !.choices_by_long_name = DictFrom(Inverted(d))]

ChoiceQuestion(question_text, choices, short_name) ==
    ChoiceQuestionOf("ChoiceQuestion", question_text, choices, short_name)

MultiChoiceQuestion(question_text, choices, short_name) ==
    LET q == ChoiceQuestionOf("MultiChoiceQuestion", question_text, choices, short_name)
    IN  [q EXCEPT !.length = Len(q.choices)]

(***************************************************************************)
(* clean: decode the cells of one field's slice of a row.                  *)
(***************************************************************************)
\* SurveyQuestion.clean (MetaData and TextQuestion inherit it)
CleanJoin(response) == Returned(VStr(Join(response)))

CleanDateTime(response) ==
    IF response # <<>> /\ strip(response[1]) # <<>>
    THEN strptime(strip(response[1]))
    ELSE Returned(VNone)

CleanInteger(response) ==
    IF response # <<>> /\ response[1] # <<>>
    THEN PyInt(response[1])
    ELSE Returned(VNone)

CleanFreeNumber(q, response) ==
    IF response = <<>> \/ response[1] = <<>> THEN Returned(VNone)
    ELSE IF ~RegMatches(response[1])
         THEN [exc |-> "none", val |-> VNone,
               out |-> <<[response |-> response[1], question |-> q.short_name]>>]
         ELSE PyFloat(RegGroup1(response[1]))

CleanBool(response) ==
    LET num == CleanInteger(response)
    IN  IF num.exc # "none" \/ num.val = VNone THEN num
        ELSE Returned(VBool(num.val.v # 0))

CleanChoice(q, response) ==
    IF response # <<>> /\ strip(response[1]) # <<>>
    THEN IF DictHas(q.choices_by_long_name, strip(response[1]))
         THEN Returned(VStr(DictGet(q.choices_by_long_name, strip(response[1]))))
         ELSE Raised("KeyError")
    ELSE Returned(VNone)

CleanMultiChoice(q, response) ==
    LET checked == {strip(response[i]) : i \in {j \in 1..Len(response) : response[j] # <<>>}}
    IN  Returned(VDict([i \in 1..Len(q.choices) |->
                          [k |-> q.choices[i].k, v |-> q.choices[i].v \in checked]]))

clean(q, response) ==
    CASE q.kind \in {"MetaData", "TextQuestion"} -> CleanJoin(response)
      [] q.kind = "DateTimeQuestion" -> CleanDateTime(response)
      [] q.kind = "IntegerQuestion" -> CleanInteger(response)
      [] q.kind = "FreeNumberQuestion" -> CleanFreeNumber(q, response)
      [] q.kind = "BoolQuestion" -> CleanBool(response)
      [] q.kind = "ChoiceQuestion" -> CleanChoice(q, response)
      [] q.kind = "MultiChoiceQuestion" -> CleanMultiChoice(q, response)

(***************************************************************************)
(* validate_heading: the truth value of what the method returns.           *)
(***************************************************************************)
\* the comparison without trimming the header cell
ValidateSingleUntrimmed(q, head) ==
    /\ head # <<>>
    /\ strip(head[1]) # <<>>
    /\ q.question_text = head[1]

ValidateSingle(q, head) ==
    /\ head # <<>>
    /\ strip(head[1]) # <<>>
    /\ q.question_text = strip(head[1])

ValidateMulti(q, head) ==
    LET hs == {strip(head[i]) : i \in 1..Len(head)}
    IN  /\ \A h \in hs : DictHas(q.choices_by_long_name, h)
        /\ \A c \in DictKeys(q.choices_by_long_name) : c \in hs

validate_heading(q, head) ==
    IF q.kind = "MultiChoiceQuestion" THEN ValidateMulti(q, head)
    ELSE ValidateSingle(q, head)

(***************************************************************************)
(* easy_summary: the ordered statistic dict of one column, or the          *)
(* exception the method raises.  Counts and the extremes of int and        *)
(* datetime columns are rendered as str() and isoformat() render them;     *)
(* 'Mean' is kept as the quotient sum / n, which str() then renders.       *)
(***************************************************************************)
\* truth value of a decoded value
Truthy(v) ==
    CASE v.t = "None" -> FALSE
      [] v.t = "str" -> v.v # <<>>
      [] v.t = "int" -> v.v # 0
      [] v.t = "bool" -> v.v
      [] v.t = "float" -> v.num # 0
      [] v.t = "datetime" -> TRUE
      [] v.t = "dict" -> v.v # <<>>

NotNone(v) == v # VNone

\* a <= b for tuples of numbers of one length, compared left to right
RECURSIVE TupleLeq(_, _)
TupleLeq(a, b) ==
    IF a = <<>> THEN TRUE
    ELSE IF Head(a) # Head(b) THEN Head(a) < Head(b)
    ELSE TupleLeq(Tail(a), Tail(b))

Pow10(n) == LET P[i \in 0..n] == IF i = 0 THEN 1 ELSE 10 * P[i - 1] IN P[n]

\* the number a value of an int, bool or float column stands for, as a numerator
\* over 10^scale
Scaled(v, scale) ==
    CASE v.t = "int" -> v.v * Pow10(scale)
      [] v.t = "bool" -> (IF v.v THEN 1 ELSE 0) * Pow10(scale)
      [] v.t = "float" -> v.num * Pow10(scale - v.scale)

ScaleOf(v) == IF v.t = "float" THEN v.scale ELSE 0

ValueLeq(a, b) ==
    IF a.t = "datetime" THEN TupleLeq(a.v, b.v)
    ELSE LET sc == IF ScaleOf(a) > ScaleOf(b) THEN ScaleOf(a) ELSE ScaleOf(b)
         IN  Scaled(a, sc) <= Scaled(b, sc)

\* min() and max() return the first of equal extremes
PyMin(column) ==
    column[MinOf({i \in 1..Len(column) : \A j \in 1..Len(column) : ValueLeq(column[i], column[j])})]

PyMax(column) ==
    column[MinOf({i \in 1..Len(column) : \A j \in 1..Len(column) : ValueLeq(column[j], column[i])})]

isoformat(d) ==
    Pad(NatStr(d[1]), 4) \o <<"-">> \o Pad(NatStr(d[2]), 2) \o <<"-">> \o Pad(NatStr(d[3]), 2)
    \o <<"T">> \o Pad(NatStr(d[4]), 2) \o <<":">> \o Pad(NatStr(d[5]), 2)
    \o <<":">> \o Pad(NatStr(d[6]), 2)

\* str() of an int, or of a float given by a short decimal numeral
NumStr(v) ==
    IF v.t = "int" THEN IntStr(v.v)
    ELSE NatStr(v.num \div Pow10(v.scale)) \o <<".">>
         \o (IF v.scale = 0 THEN <<"0">>
             ELSE Pad(NatStr(v.num % Pow10(v.scale)), v.scale))

SumScaled(column, scale) ==
    LET F[i \in 0..Len(column)] ==
            IF i = 0 THEN 0 ELSE F[i - 1] + Scaled(column[i], scale)
    IN  F[Len(column)]

MaxScale(column) == MaxOf({0} \cup {ScaleOf(column[i]) : i \in 1..Len(column)})

Summary(d) == [exc |-> "none", val |-> d]

SummaryRaised(e) == [exc |-> e, val |-> <<>>]

Stat(k, v) == [k |-> k, v |-> v]

SummaryBase(column) ==
    Summary(<<Stat(<<"C","o","u","n","t">>, NatStr(Len(column)))>>)

SummaryText(column) ==
    Summary(<<Stat(<<"C","o","u","n","t">>, NatStr(Len(SelectSeq(column, Truthy))))>>)

SummaryDateTime(column) ==
    LET filtered == SelectSeq(column, Truthy)
    IN  IF filtered = <<>> THEN SummaryRaised("ValueError")
        ELSE Summary(<<Stat(<<"C","o","u","n","t">>, NatStr(Len(filtered))),
                       Stat(<<"E","a","r","l","i","e","s","t">>, isoformat(PyMin(filtered).v)),
                       Stat(<<"L","a","t","e","s","t">>, isoformat(PyMax(filtered).v))>>)

SummaryInteger(column) ==
    LET filtered == SelectSeq(column, NotNone)
    IN  IF filtered = <<>> THEN SummaryRaised("ValueError")
        ELSE Summary(<<Stat(<<"C","o","u","n","t">>, NatStr(Len(filtered))),
                       Stat(<<"M","i","n">>, NumStr(PyMin(filtered))),
                       Stat(<<"M","e","a","n">>,
                            [sum |-> SumScaled(filtered, MaxScale(filtered)),
                             scale |-> MaxScale(filtered),
                             n |-> Len(filtered)]),
                       Stat(<<"M","a","x">>, NumStr(PyMax(filtered)))>>)

IsFalse(v) == ~Truthy(v)

SummaryBool(column) ==
    LET filtered == SelectSeq(column, NotNone)
    IN  Summary(<<Stat(<<"C","o","u","n","t">>, NatStr(Len(filtered))),
                  Stat(<<"Y","e","s">>, NatStr(Len(SelectSeq(filtered, Truthy)))),
                  Stat(<<"N","o">>, NatStr(Len(SelectSeq(filtered, IsFalse))))>>)

\* retval = {'Count': ...}; retval.update({c: ... for c in self.choices.keys()}),
\* hits[i] being the number of filtered rows counted for option i
OptionCounts(q, total, hits) ==
    LET F[i \in 0..Len(q.choices)] ==
            IF i = 0 THEN <<Stat(<<"C","o","u","n","t">>, NatStr(total))>>
            ELSE DictPut(F[i - 1], q.choices[i].k, NatStr(hits[i]))
    IN  Summary(F[Len(q.choices)])

SummaryChoice(q, column) ==
    LET filtered == SelectSeq(column, Truthy)
    IN  OptionCounts(q, Len(filtered),
            [i \in 1..Len(q.choices) |->
                Cardinality({j \in 1..Len(filtered) : filtered[j] = VStr(q.choices[i].k)})])

AnyChecked(v) == \E i \in 1..Len(v.v) : v.v[i].v

SummaryMultiChoice(q, column) ==
    LET filtered == SelectSeq(column, AnyChecked)
    IN  OptionCounts(q, Len(filtered),
            [i \in 1..Len(q.choices) |->
                Cardinality({j \in 1..Len(filtered) : DictGet(filtered[j].v, q.choices[i].k)})])

easy_summary(q, column) ==
    CASE q.kind = "MetaData" -> SummaryBase(column)
      [] q.kind = "TextQuestion" -> SummaryText(column)
      [] q.kind = "DateTimeQuestion" -> SummaryDateTime(column)
      [] q.kind \in {"IntegerQuestion", "FreeNumberQuestion"} -> SummaryInteger(column)
      [] q.kind = "BoolQuestion" -> SummaryBool(column)
      [] q.kind = "ChoiceQuestion" -> SummaryChoice(q, column)
      [] q.kind = "MultiChoiceQuestion" -> SummaryMultiChoice(q, column)

(***************************************************************************)
(* The fixed questions every survey gets, and the texts of the inputs.     *)
(***************************************************************************)
T_Hash == <<"#">>

T_ID == <<"I","D">>

T_NetworkID == <<"N","e","t","w","o","r","k"," ","I","D">>

T_StartHead == <<"S","t","a","r","t"," ","D","a","t","e"," ","(","U","T","C",")">>

T_StartDate == <<"S","t","a","r","t"," ","D","a","t","e">>

T_SubmitHead == <<"S","u","b","m","i","t"," ","D","a","t","e"," ","(","U","T","C",")">>

T_EndDate == <<"E","n","d"," ","D","a","t","e">>

_response_id == MetaData(T_Hash, T_ID)

_network_id == MetaData(T_NetworkID, <<>>)

_start_time == DateTimeQuestion(T_StartHead, T_StartDate)

_end_time == DateTimeQuestion(T_SubmitHead, T_EndDate)

(***************************************************************************)
(* SurveyResponses.                                                        *)
(***************************************************************************)
\* number of row cells the first i questions take
Offset(qs, i) ==
    LET F[j \in 0..i] == IF j = 0 THEN 0 ELSE F[j - 1] + qs[j].length
    IN  F[i]

\* SurveyResponses(questions, headers): the object built, or the exception
\* raised.  Formatting the message of the validation error indexes the header
\* row at both ends of the slice, which is an IndexError past its end.
SurveyResponsesInit(survey, hdr) ==
    LET qs == <<_response_id>> \o survey \o <<_start_time, _end_time, _network_id>>
        m == [i \in 1..Len(qs) |-> [start |-> Offset(qs, i - 1), stop |-> Offset(qs, i)]]
        bad == {i \in 1..Len(qs) :
                    ~validate_heading(qs[i], Slice(hdr, m[i].start, m[i].stop))}
        i == MinOf(bad)
    IN  IF bad = {}
        THEN [exc |-> "none", questions |-> qs, mapping |-> m,
              responses |-> [k \in {qs[j].short_name : j \in 1..Len(qs)} |-> <<>>]]
        ELSE [exc |-> IF m[i].start >= Len(hdr) \/ m[i].stop - 1 >= Len(hdr)
                      THEN "IndexError" ELSE "Exception",
              questions |-> <<>>, mapping |-> <<>>, responses |-> <<>>]

\* SurveyResponses.ingest from question i on: each question's clean result is
\* appended to its column as soon as it is computed; an exception leaves what
\* the earlier questions appended.
RECURSIVE IngestFrom(_, _, _, _, _, _)
IngestFrom(i, qs, m, resp, out, row) ==
    IF i > Len(qs) THEN [exc |-> "none", responses |-> resp, out |-> out, failedAt |-> 0]
    ELSE LET r == clean(qs[i], Slice(row, m[i].start, m[i].stop))
             k == qs[i].short_name
         IN  IF r.exc # "none"
             THEN [exc |-> r.exc, responses |-> resp, out |-> out \o r.out, failedAt |-> i]
             ELSE IngestFrom(i + 1, qs, m,
                             [resp EXCEPT ![k] = Append(@, r.val)],
                             out \o r.out, row)

ingest(qs, m, resp, row) == IngestFrom(1, qs, m, resp, <<>>, row)

(***************************************************************************)
(* Inputs of parse: surveys, header rows and data rows.                    *)
(***************************************************************************)
T_Age == <<"A","g","e">>

T_Red == <<"R","e","d">>

T_Blue == <<"B","l","u","e">>

T_GoodTime == <<"2","0","2","1","-","0","1","-","0","1"," ","1","0",":","0","0",":","0","0">>

T_BadTime == <<"2","0","2","1","-","1","3","-","0","1"," ","1","0",":","0","0",":","0","0">>

Colours == [isdict |-> TRUE,
            items |-> <<[k |-> <<"r">>, v |-> T_Red], [k |-> <<"b">>, v |-> T_Blue]>>]

Surveys ==
    { <<>>,
      <<IntegerQuestion(T_Age, <<>>)>>,
      <<FreeNumberQuestion(T_Age, <<>>)>>,
      <<BoolQuestion(T_Age, <<>>)>>,
      <<TextQuestion(T_Age, T_ID)>>,
      <<ChoiceQuestion(T_Age, Colours, <<>>)>>,
      <<MultiChoiceQuestion(T_Age, Colours, <<>>)>> }

HeaderRows ==
    { <<T_Hash>> \o mid \o tail \o extra :
        mid \in {<<>>, <<T_Age>>, <<T_Red, T_Blue>>, <<T_Blue, T_Red>>},
        tail \in {<<T_StartHead, T_SubmitHead, T_NetworkID>>, <<T_StartHead, T_SubmitHead>>},
        extra \in {<<>>, <<T_Age>>} }

SeqsUpTo(S, n) == UNION {[1..k -> S] : k \in 0..n}

RowCells == {<<>>, <<"7">>, <<"\f", "U+0663">>, <<"x">>, <<".", ".">>}

ChoiceCells == {<<>>, T_Red, T_Blue}

DataRows ==
    { <<<<"1">>>> \o mid \o <<ts, T_GoodTime>> \o last :
        mid \in SeqsUpTo(RowCells \cup ChoiceCells, 1) \cup SeqsUpTo(ChoiceCells, 2),
        ts \in {T_GoodTime, T_BadTime},
        last \in {<<>>, <<<<"n">>>>, <<<<"n">>, <<"x">>>>} }

(***************************************************************************)
(* parse(survey, results): build the table from the header row, ingest the *)
(* data rows one by one, return the table.                                 *)
(***************************************************************************)
NoField == [kind |-> "none"]

Init ==
    /\ pc = "start"
    /\ questions = <<>>
    /\ headers = <<>>
    /\ mapping = <<>>
    /\ responses = <<>>
    /\ lastRow = <<>>
    /\ calls = 0
    /\ failedAt = 0
    /\ raisedExc = "none"
    /\ stdout = <<>>
    /\ fq = NoField
    /\ fhead = <<>>
    /\ fcells = <<>>
    /\ fop = "none"
    /\ fout = <<>>

\* retval = SurveyResponses(survey, next(results_iter))
Construct ==
    /\ pc = "start"
    /\ \E survey \in Surveys, hdr \in HeaderRows :
         LET r == SurveyResponsesInit(survey, hdr)
         IN  /\ headers' = hdr
             /\ questions' = r.questions
             /\ mapping' = r.mapping
             /\ responses' = r.responses
             /\ raisedExc' = r.exc
             /\ pc' = IF r.exc = "none" THEN "ingesting" ELSE "ctor_failed"
    /\ UNCHANGED <<lastRow, calls, failedAt, stdout, fieldVars>>

\* next(results_iter) on results without a header row
NoHeader ==
    /\ pc = "start"
    /\ pc' = "ctor_failed"
    /\ raisedExc' = "StopIteration"
    /\ UNCHANGED <<questions, headers, mapping, responses, lastRow, calls,
                   failedAt, stdout, fieldVars>>

\* for r in results_iter: retval.ingest(*r)
Ingest ==
    /\ pc = "ingesting"
    /\ calls < MaxRows
    /\ \E row \in DataRows :
         LET r == ingest(questions, mapping, responses, row)
         IN  /\ lastRow' = row
             /\ responses' = r.responses
             /\ stdout' = stdout \o r.out
             /\ failedAt' = r.failedAt
             /\ raisedExc' = r.exc
             /\ pc' = IF r.exc = "none" THEN "ingesting" ELSE "aborted"
    /\ calls' = calls + 1
    /\ UNCHANGED <<questions, headers, mapping, fieldVars>>

\* return retval
Return ==
    /\ pc = "ingesting"
    /\ pc' = "done"
    /\ UNCHANGED <<questions, headers, mapping, responses, lastRow, calls,
                   failedAt, raisedExc, stdout, fieldVars>>

Next == NoHeader \/ Construct \/ Ingest \/ Return

Spec == Init /\ [][Next]_vars

(***************************************************************************)
(* The single operations of a question, applied to inputs drawn from       *)
(* bounded sets: validate_heading on a header span, clean on a row span.   *)
(***************************************************************************)
\* "\fA" strips to "A"
OptionTexts == {<<>>, <<"A">>, <<"B">>, <<"\f", "A">>}

\* raw dict keys, in the order a dict literal lists them; " a" strips to "a"
KeyOrders == { <<<<"a">>>>, <<<<"b">>>>, <<<<" ", "a">>>>,
               <<<<"a">>, <<"b">>>>, <<<<"a">>, <<" ", "a">>>>, <<<<"b">>, <<" ", "a">>>>,
               <<<<"a">>, <<"b">>, <<" ", "a">>>> }

ChoiceArgs ==
    { ListOf(l) : l \in SeqsUpTo(OptionTexts, MaxOptions) }
    \cup
    UNION { { [isdict |-> TRUE,
               items |-> [i \in 1..Len(ks) |-> [k |-> ks[i], v |-> vs[i]]]] :
                 vs \in [1..Len(ks) -> OptionTexts] } :
            ks \in {x \in KeyOrders : Len(x) <= MaxOptions} }

SingleFields ==
    UNION { { MetaData(l, <<>>), TextQuestion(l, <<>>), IntegerQuestion(l, <<>>),
              ChoiceQuestion(l, ListOf(<<<<"A">>>>), <<>>) } :
            l \in OptionTexts }

ChoiceFields == {ChoiceQuestion(<<"Q">>, c, <<>>) : c \in ChoiceArgs}

MultiFields == {MultiChoiceQuestion(<<"Q">>, c, <<>>) : c \in ChoiceArgs}

Spans == SeqsUpTo(OptionTexts, MaxSpan)

NumberCells == SeqsUpTo({"1", ".", "x", "U+0663"}, MaxCellLen)

TableIdle ==
    /\ pc = "start"
    /\ questions = <<>>
    /\ headers = <<>>
    /\ mapping = <<>>
    /\ responses = <<>>
    /\ lastRow = <<>>
    /\ calls = 0
    /\ failedAt = 0
    /\ raisedExc = "none"
    /\ stdout = <<>>

\* q.validate_heading(*head)
ValidateHeading ==
    /\ fop = "none"
    /\ fop' = "validate"
    /\ fout' = validate_heading(fq, fhead)
    /\ UNCHANGED <<fq, fhead, fcells, tableVars>>

\* q.clean(*response)
Clean ==
    /\ fop = "none"
    /\ fop' = "clean"
    /\ fout' = clean(fq, fcells)
    /\ UNCHANGED <<fq, fhead, fcells, tableVars>>

\* q.clean(*response) on a row span, once the header span has validated, as
\* SurveyResponses does for each question
CleanValidated ==
    /\ fop = "validate"
    /\ fout = TRUE
    /\ fop' = "clean"
    /\ fout' = clean(fq, fcells)
    /\ UNCHANGED <<fq, fhead, fcells, tableVars>>

InitHeading ==
    /\ TableIdle
    /\ fq \in SingleFields \cup MultiFields
    /\ fhead \in Spans
    /\ fcells = <<>>
    /\ fop = "none"
    /\ fout = <<>>

SpecHeading == InitHeading /\ [][ValidateHeading]_vars

InitClean ==
    /\ TableIdle
    /\ \/ fq \in ChoiceFields \cup MultiFields /\ fcells \in Spans
       \/ fq = FreeNumberQuestion(T_Age, <<>>) /\ fcells \in {<<c>> : c \in NumberCells}
    /\ fhead = <<>>
    /\ fop = "none"
    /\ fout = <<>>

SpecClean == InitClean /\ [][Clean]_vars

InitMulti ==
    /\ TableIdle
    /\ fq \in MultiFields
    /\ fhead \in Spans
    /\ fcells \in Spans
    /\ fop = "none"
    /\ fout = <<>>

NextMulti == ValidateHeading \/ CleanValidated

SpecMulti == InitMulti /\ [][NextMulti]_vars

(***************************************************************************)
(* Properties of the table (checked under Spec).  The definitions of this  *)
(* section and the next are the vocabulary of the properties; they model   *)
(* no code.                                                                *)
(***************************************************************************)
Constructed == pc \in {"ingesting", "aborted", "done"}

TotalWidth == Offset(questions, Len(questions))

FieldsNamed(k) == Cardinality({i \in 1..Len(questions) : questions[i].short_name = k})

\* C1: whatever the caller's questions, in every state of a table that parse
\* is filling or has returned, all columns have one length, the number of rows
\* ingested so far: each ingested row adds exactly one value to every column.
C1_ColumnsInLockstep ==
    pc \in {"ingesting", "done"} =>
        \A k \in DOMAIN responses : Len(responses[k]) = calls

\* C2: an ingest call is atomic: either every field's value is appended to its
\* column, or the call fails and every column is as it was before the call.
C2_IngestAtomic ==
    [][calls' = calls + 1 =>
        \/ /\ pc' = "aborted"
           /\ responses' = responses
        \/ /\ pc' # "aborted"
           /\ \A k \in DOMAIN responses :
                Len(responses'[k]) = Len(responses[k]) + FieldsNamed(k)]_vars

\* C3: construction succeeds only if the widths of all questions add up to the
\* number of columns of the header row.
C3_WidthsCoverHeader ==
    Constructed => TotalWidth = Len(headers)

\* C4: a row whose number of cells differs from the header's number of
\* columns is rejected: ingest fails on it.  (That a failing ingest leaves every
\* column unchanged is the statement of C2.)
C4_OffCountRowRejected ==
    [][(calls' = calls + 1 /\ Len(lastRow') # Len(headers)) => pc' = "aborted"]_vars

StrictMalformed(q, cell) ==
    \/ q.kind = "IntegerQuestion" /\ cell # <<>> /\ PyInt(cell).exc # "none"
    \/ q.kind = "DateTimeQuestion" /\ strip(cell) # <<>>
       /\ strptime(strip(cell)).exc # "none"

\* C8: a malformed cell in an integer or timestamp field of a row aborts the
\* parse (no table is returned, no later row is ingested), whereas a
\* lenient-number field never aborts it.
C8_StrictAbortsLenientContinues ==
    /\ (calls > 0 /\ \E i \in 1..Len(questions) :
            /\ mapping[i].start < Len(lastRow)
            /\ StrictMalformed(questions[i], lastRow[mapping[i].start + 1]))
       => pc = "aborted"
    /\ pc = "aborted" => questions[failedAt].kind # "FreeNumberQuestion"

\* C10: in every state of a constructed table that parse can hand back or is
\* still filling, easy_summary of every question returns its statistics
\* rather than raising.
C10_SummaryAlwaysDefined ==
    pc \in {"ingesting", "done"} =>
        \A i \in 1..Len(questions) :
            easy_summary(questions[i], responses[questions[i].short_name]).exc = "none"

(***************************************************************************)
(* Properties of the single operations.                                    *)
(***************************************************************************)
OptionLabels(q) == {q.choices[i].v : i \in 1..Len(q.choices)}

TrimmedCells(head) == {strip(head[i]) : i \in 1..Len(head)}

Reorderings(seq) ==
    { [i \in 1..Len(seq) |-> seq[f[i]]] :
        f \in {g \in [1..Len(seq) -> 1..Len(seq)] :
                 \A a, b \in 1..Len(seq) : a # b => g[a] # g[b]} }

\* C5 as stated: a width-1 field accepts a header cell exactly when the trimmed
\* cell equals its label; a multi-choice field accepts a span exactly when the
\* set of its trimmed cells equals the set of option long labels, in every
\* order of the cells.
C5_Original ==
    fop = "validate" =>
        IF fq.kind = "MultiChoiceQuestion"
        THEN /\ fout = (TrimmedCells(fhead) = OptionLabels(fq))
             /\ \A h \in Reorderings(fhead) : validate_heading(fq, h) = fout
        ELSE Len(fhead) = 1 =>
                (fout <=> strip(fhead[1]) = fq.question_text)

\* C5 (amended): a width-1 field accepts a header cell exactly when the trimmed
\* cell is non-empty and equals its label; a multi-choice field accepts a span
\* exactly when the set of its trimmed cells equals the set of option long
\* labels, in every order of the cells.
C5_HeaderValidation ==
    fop = "validate" =>
        IF fq.kind = "MultiChoiceQuestion"
        THEN /\ fout = (TrimmedCells(fhead) = OptionLabels(fq))
             /\ \A h \in Reorderings(fhead) : validate_heading(fq, h) = fout
        ELSE Len(fhead) = 1 =>
                (fout <=> (strip(fhead[1]) # <<>> /\ strip(fhead[1]) = fq.question_text))

\* a multi-choice field with two distinct options has accepted their labels in
\* the other order, one of them padded
C5_Witness ==
    /\ fop = "validate"
    /\ fq.kind = "MultiChoiceQuestion"
    /\ OptionLabels(fq) = {<<"A">>, <<"B">>}
    /\ fhead = <<<<"B">>, <<"\f", "A">>>>
    /\ fout = TRUE

\* C6: the decoded mapping of a multi-choice span has one boolean per option,
\* and an option is true exactly when the cell in its own column (the column
\* whose header is its long label) is non-empty and holds its long label.
C6_DecodePerPosition ==
    (fop = "clean" /\ Len(fhead) = fq.length /\ Len(fcells) = fq.length) =>
        /\ fout.exc = "none"
        /\ fout.val.t = "dict"
        /\ Len(fout.val.v) = Len(fq.choices)
        /\ \A i \in 1..Len(fq.choices) :
            /\ fout.val.v[i].k = fq.choices[i].k
            /\ fout.val.v[i].v <=>
                 \E j \in 1..Len(fhead) :
                    /\ strip(fhead[j]) = fq.choices[i].v
                    /\ fcells[j] # <<>>
                    /\ strip(fcells[j]) = fq.choices[i].v

\* C7: the lenient-number decode never raises: it returns a number or null,
\* and null with a diagnostic for a non-empty cell holding no digit.
C7_LenientNeverRaises ==
    (fop = "clean" /\ fq.kind = "FreeNumberQuestion") =>
        /\ fout.exc = "none"
        /\ fout.val.t \in {"float", "None"}
        /\ (fcells[1] # <<>> /\ \A i \in 1..Len(fcells[1]) : fcells[1][i] \notin Digits)
              => (fout.val.t = "None" /\ fout.out # <<>>)

\* the cells decoded hold the long label `text` in one cell and nothing else
HoldsOnly(q, cells, text) ==
    IF q.kind = "ChoiceQuestion" THEN Len(cells) >= 1 /\ cells[1] = text
    ELSE \E j \in 1..Len(cells) :
            cells[j] = text /\ \A l \in 1..Len(cells) : l # j => cells[l] = <<>>

\* the short name(s) decoded map back to `text` through q.choices
MapsBackTo(q, r, text) ==
    /\ r.exc = "none"
    /\ IF q.kind = "ChoiceQuestion"
       THEN /\ r.val.t = "str"
            /\ DictHas(q.choices, r.val.v)
            /\ DictGet(q.choices, r.val.v) = text
       ELSE /\ r.val.t = "dict"
            /\ \E i \in 1..Len(r.val.v) : r.val.v[i].v
            /\ \A i \in 1..Len(r.val.v) :
                 r.val.v[i].v => DictGet(q.choices, r.val.v[i].k) = text

\* C9 as stated: for every option of a choice or multi-choice field, decoding a
\* cell holding the option's long label and mapping the decoded short name(s)
\* back through choices gives the long label.
C9_Original ==
    (fop = "clean" /\ fq.kind \in {"ChoiceQuestion", "MultiChoiceQuestion"}) =>
        \A i \in 1..Len(fq.choices) :
            HoldsOnly(fq, fcells, fq.choices[i].v) => MapsBackTo(fq, fout, fq.choices[i].v)

\* C9 (amended): for every option of a choice or multi-choice field whose long
\* label is not empty, decoding a cell holding the option's long label and
\* mapping the decoded short name(s) back through choices gives the long label.
C9_RoundTrip ==
    (fop = "clean" /\ fq.kind \in {"ChoiceQuestion", "MultiChoiceQuestion"}) =>
        \A i \in 1..Len(fq.choices) :
            (fq.choices[i].v # <<>> /\ HoldsOnly(fq, fcells, fq.choices[i].v))
                => MapsBackTo(fq, fout, fq.choices[i].v)

\* a single-choice field built from the dict {a: A, b: B} has decoded the cell
\* A to the short name a
C9_Witness ==
    /\ fop = "clean"
    /\ fq.kind = "ChoiceQuestion"
    /\ fq.choices = <<[k |-> <<"a">>, v |-> <<"A">>], [k |-> <<"b">>, v |-> <<"B">>]>>
    /\ fcells = <<<<"A">>>>
    /\ fout.exc = "none"
    /\ fout.val.t = "str"
    /\ fout.val.v = <<"a">>

====
